---- MODULE Spec2Model ----
(***************************************************************************)
(* Model of the content-addressed result store of visionqc-local-ai        *)
(* (src/db/db.py): the table `results` with its two UNIQUE indexes, and    *)
(* the operations insert_result, upsert_result, fetch_results,             *)
(* search_results and delete_results, each one whole call per step.        *)
(*                                                                         *)
(* Text values that SQL LIKE looks into (file_name, detail, location, the  *)
(* search patterns) are tuples of one-character strings; a path is the     *)
(* tuple of its components; a timestamp 'YYYY-MM-DD HH:MM:SS' is the pair  *)
(* <<day, second of the day>>; Python's None and "" (both falsy) are <<>>. *)
(***************************************************************************)
EXTENDS Integers, Sequences, FiniteSets, TLC

\* ------------------------------------------------------------------ bounds
\* AUTOINCREMENT ids handed out in one run: new rows are created while the
\* sequence is below MaxId.
MaxId == 3
\* Largest LIMIT passed to fetch_results / search_results.
MaxLimit == 2

\* ------------------------------------------------------- program constants
DEFECT_LABELS ==
    << "no_defect", "dent", "scratch", "crack",
       "glass shatter", "lamp broken", "tire flat" >>

\* ------------------------------------------------------------ input domains
\* Two files: /d/a_b and /e/b (different directories, different names).
Paths == { << <<"d">>, <<"a", "_", "b">> >>, << <<"e">>, <<"b">> >> }

\* File contents, as byte strings.
Contents == { <<1>>, <<2>> }

\* Timestamps <<day, second>>: one on day 1 after midnight, one at the
\* midnight that starts day 2.  Two rows tie when they carry the same one.
Times == { <<1, 30>>, <<2, 0>> }

\* The classification fields a caller passes (label, severity, location,
\* score, detail, action).  "blob" is a label outside DEFECT_LABELS.
Verdicts ==
    { [defect_type |-> "dent", severity |-> "A", location |-> <<"a", "b">>,
       score |-> 9, detail |-> <<"a">>, action |-> "Reject"],
      [defect_type |-> "blob", severity |-> "C", location |-> <<"A">>,
       score |-> 1, detail |-> <<>>, action |-> "Pass"] }

VARIABLES
    files,   \* the file system: path -> content of the file at that path
    rows,    \* table `results`: a set of rows, one record per row
    seq,     \* sqlite_sequence of `results`: the largest id ever assigned
    last,    \* the last call: operation, arguments, outcome
    procs,   \* the calls in progress when callers overlap: caller -> its position
    gui,     \* the main window: current image, last verdict, text panel, batch
    db_up    \* the database file can be opened

vars == << files, rows, seq, last, procs, gui, db_up >>

\* --------------------------------------------------------------- helpers
Min(a, b) == IF a < b THEN a ELSE b

\* hashlib.sha256 over the whole file, hex digest.  SHA-256 is taken to be
\* collision free: the digest determines the bytes.
_file_sha256(fs, fpath) == <<"sha256">> \o fs[fpath]

\* Path(image_path).name: the final component.
PathName(image_path) == image_path[Len(image_path)]

\* `ts or datetime.now().strftime(...)`: a falsy ts gives the clock's value.
TsVal(ts, now) == IF ts = <<>> THEN now ELSE ts

\* `if defect_type not in DEFECT_LABELS` left out.
LabelOrDefault_Verbatim(defect_type) == defect_type

\* `if defect_type not in DEFECT_LABELS: defect_type = DEFECT_LABELS[0]`
LabelOrDefault(defect_type) ==
    IF \E i \in 1..Len(DEFECT_LABELS) : DEFECT_LABELS[i] = defect_type
    THEN defect_type ELSE DEFECT_LABELS[1]

\* The two UNIQUE indexes of ensure_schema: would a row with this path and
\* this digest collide with a row of rs?
UniqueViolation_PathOnly(rs, path, hash) ==
    \E r \in rs : r.image_path = path
UniqueViolation_HashOnly(rs, path, hash) ==
    \E r \in rs : r.image_hash = hash
UniqueViolation(rs, path, hash) ==
    \E r \in rs : r.image_path = path \/ r.image_hash = hash

\* id INTEGER PRIMARY KEY AUTOINCREMENT: the id an INSERT hands out is one
\* more than the largest id the table ever had (sqlite_sequence), whatever
\* rows are left in it.
NextId_MaxRowid(rs, s) ==
    IF rs = {} THEN 1
    ELSE (CHOOSE m \in { r.id : r \in rs } : \A r \in rs : r.id <= m) + 1
NextId(rs, s) == s + 1

\* The row the INSERT statements of insert_result / upsert_result add.
NewRow(id, path, hash, v, tsv) ==
    [id |-> id, file_name |-> PathName(path), image_path |-> path,
     image_hash |-> hash, defect_type |-> LabelOrDefault(v.defect_type),
     severity |-> v.severity, location |-> v.location, score |-> v.score,
     detail |-> v.detail, action |-> v.action, ts |-> tsv]

TypeOK ==
    /\ files \in [Paths -> Contents]
    /\ seq \in 0..MaxId
    /\ \A r \in rows : r.id \in 1..seq
    /\ \A r1, r2 \in rows : r1.id = r2.id => r1 = r2

\* The callers of the overlapping calls, and their position when none of
\* them is inside a call.
Callers == {"t1", "t2"}

NoCalls == [t \in Callers |-> [pc |-> "idle"]]

\* The state of the window where no window takes part.
NoWindow == [pc |-> "closed"]

Init ==
    /\ files \in [Paths -> Contents]
    /\ rows = {}
    /\ seq = 0
    /\ last = [op |-> "init"]
    /\ procs = NoCalls
    /\ gui = NoWindow
    /\ db_up = TRUE

\* The environment rewrites a file in place (or copies another file over it).
WriteFile(p, b) ==
    /\ files[p] # b
    /\ files' = [files EXCEPT ![p] = b]
    /\ last' = [op |-> "write_file", path |-> p]
    /\ UNCHANGED << rows, seq, procs >>

\* insert_result: INSERT OR IGNORE, commit, `ok = (cur.rowcount == 1)`.
\* The AUTOINCREMENT counter advances on every execution of the statement,
\* also when the row is ignored (OP_NewRowid runs before the constraint
\* checks and the counter is written back at the end of the statement).
insert_result(image_path, v, ts, now) ==
    LET ihash  == _file_sha256(files, image_path)
        ts_val == TsVal(ts, now)
        ok     == ~UniqueViolation(rows, image_path, ihash)
    IN  /\ seq < MaxId
        /\ rows' = IF ok THEN rows \cup {NewRow(NextId(rows, seq), image_path, ihash, v, ts_val)}
                         ELSE rows
        /\ seq' = NextId(rows, seq)
        /\ last' = [op |-> "insert", path |-> image_path, hash |-> ihash,
                    arg |-> v, ts |-> ts_val, ret |-> ok, exc |-> "none",
                    commit |-> TRUE]
        /\ UNCHANGED << files, procs >>

\* A plausible slip: the lookup without its WHERE clause.
SelectIdByHash_AnyRow(rs, hash) == { r.id : r \in rs }

\* `SELECT id FROM results WHERE image_hash = ?` then fetchone(): the ids found.
SelectIdByHash(rs, hash) == { r.id : r \in { x \in rs : x.image_hash = hash } }

\* The UPDATE of upsert_result on row rid: every column but id and image_hash.
UpdateRow(r, path, v, tsv) ==
    [r EXCEPT !.file_name = PathName(path), !.image_path = path,
              !.defect_type = LabelOrDefault(v.defect_type),
              !.severity = v.severity, !.location = v.location,
              !.score = v.score, !.detail = v.detail, !.action = v.action,
              !.ts = tsv]

\* The UNIQUE index on image_path, checked by the UPDATE: another row
\* already has the path the row rid is given.
UpdateViolation_Unchecked(rs, rid, path) == FALSE
UpdateViolation(rs, rid, path) ==
    \E r \in rs : r.id # rid /\ r.image_path = path

\* upsert_result: look the digest up; UPDATE the row found, else plain INSERT.
\* A statement that violates a UNIQUE index raises sqlite3.IntegrityError
\* before commit(): the statement is undone and nothing is committed.
\* (The connection is not closed on that path; the next call is taken to
\* come after it has been finalised, see Finalize.)
upsert_result(image_path, v, ts, now) ==
    LET ihash  == _file_sha256(files, image_path)
        ts_val == TsVal(ts, now)
        found  == SelectIdByHash(rows, ihash)
        base   == [op |-> "upsert", path |-> image_path, hash |-> ihash,
                   arg |-> v, ts |-> ts_val]
        raise  == /\ last' = base @@ [ret |-> 0, exc |-> "IntegrityError",
                                       commit |-> FALSE]
                  /\ UNCHANGED << rows, seq >>
    IN  /\ UNCHANGED << files, procs >>
        /\ IF found # {}
           THEN \E rid \in found :
                  IF UpdateViolation(rows, rid, image_path)
                  THEN raise
                  ELSE /\ rows' = { IF r.id = rid
                                    THEN UpdateRow(r, image_path, v, ts_val)
                                    ELSE r : r \in rows }
                       /\ seq' = seq
                       /\ last' = base @@ [ret |-> rid, exc |-> "none",
                                           commit |-> TRUE]
           ELSE IF UniqueViolation(rows, image_path, ihash)
                THEN raise
                ELSE /\ seq < MaxId
                     /\ rows' = rows \cup {NewRow(NextId(rows, seq), image_path, ihash, v, ts_val)}
                     /\ seq' = NextId(rows, seq)
                     /\ last' = base @@ [ret |-> NextId(rows, seq), exc |-> "none",
                                         commit |-> TRUE]

\* delete_results(ids): `DELETE FROM results WHERE id IN (?, ...)`, commit,
\* rowcount.  An empty list returns 0 before the database is opened.
InList(x, ids) == \E i \in 1..Len(ids) : ids[i] = x

DeleteWhereIdIn(rs, ids) == { r \in rs : ~InList(r.id, ids) }

\* cur.rowcount of the DELETE: the rows it removed.
DeleteCount_Requested(rs, ids) == Len(ids)
DeleteCount(rs, ids) == Cardinality(rs) - Cardinality(DeleteWhereIdIn(rs, ids))

delete_results(ids) ==
    /\ IF Len(ids) = 0
       THEN /\ rows' = rows
            /\ last' = [op |-> "delete", ids |-> ids, ret |-> 0, exc |-> "none",
                        commit |-> FALSE]
       ELSE /\ rows' = DeleteWhereIdIn(rows, ids)
            /\ last' = [op |-> "delete", ids |-> ids,
                        ret |-> DeleteCount(rows, ids),
                        exc |-> "none", commit |-> TRUE]
    /\ UNCHANGED << files, seq, procs >>

\* The id lists tried: up to two ids out of those assigned so far and one
\* that never was (n + 1), a repeated id included.  IN ignores the order.
IdLists(n) ==
    { <<>> } \cup { <<i>> : i \in 1..n + 1 }
             \cup { <<i, j>> : i \in 1..n + 1, j \in 1..n + 1 }

\* ------------------------------------------------------------- queries
\* SQLite datetime(ts) and date(ts) of a 'YYYY-MM-DD HH:MM:SS' text (date()
\* also takes a bare 'YYYY-MM-DD'): seconds since day 0, and the day.
datetime(ts) == ts[1] * 86400 + ts[2]
date(ts) == ts[1]

\* ORDER BY datetime(ts) DESC, id DESC: r sorts before o.
SortsBefore_IdAsc(r, o) ==
    \/ datetime(r.ts) > datetime(o.ts)
    \/ datetime(r.ts) = datetime(o.ts) /\ r.id < o.id
SortsBefore(r, o) ==
    \/ datetime(r.ts) > datetime(o.ts)
    \/ datetime(r.ts) = datetime(o.ts) /\ r.id > o.id

RECURSIVE OrderBy(_)
OrderBy(rs) ==
    IF rs = {} THEN << >>
    ELSE LET first == CHOOSE r \in rs : \A o \in rs \ {r} : SortsBefore(r, o)
         IN  << first >> \o OrderBy(rs \ {first})

\* LIMIT ?: a negative limit is no limit.
Limit(s, limit) ==
    IF limit < 0 THEN s ELSE SubSeq(s, 1, Min(limit, Len(s)))

\* The ten columns both SELECTs return (image_hash is not among them).
SelectCols(r) ==
    << r.id, r.image_path, r.file_name, r.defect_type, r.severity,
       r.location, r.score, r.detail, r.action, r.ts >>

Select(rs, limit) ==
    LET s == Limit(OrderBy(rs), limit)
    IN  [i \in 1..Len(s) |-> SelectCols(s[i])]

\* SQLite LIKE: % is any run of characters, _ is any one character, and
\* ASCII letters match without regard to case.
Lower(c) == IF c = "A" THEN "a" ELSE IF c = "B" THEN "b" ELSE c

RECURSIVE Like(_, _)
Like(s, pat) ==
    IF pat = << >> THEN s = << >>
    ELSE IF Head(pat) = "%"
         THEN Like(s, Tail(pat)) \/ (s # << >> /\ Like(Tail(s), pat))
         ELSE /\ s # << >>
              /\ Head(pat) = "_" \/ Lower(Head(pat)) = Lower(Head(s))
              /\ Like(Tail(s), Tail(pat))

\* f"%{x}%"
Wrap(x) == << "%" >> \o x \o << "%" >>

\* The WHERE clause search_results builds: one AND term per truthy argument.
Where_AllTerms(r, q) ==
    /\ r.defect_type = q.defect_type
    /\ r.severity = q.severity
    /\ r.action = q.action
    /\ Like(r.location, Wrap(q.location))
    /\ \/ Like(r.file_name, Wrap(q.keyword))
       \/ Like(r.detail, Wrap(q.keyword))
       \/ Like(r.location, Wrap(q.keyword))
Where(r, q) ==
    /\ q.defect_type # "" => r.defect_type = q.defect_type
    /\ q.severity # "" => r.severity = q.severity
    /\ q.action # "" => r.action = q.action
    /\ q.location # << >> => Like(r.location, Wrap(q.location))
    /\ q.keyword # << >> =>
          \/ Like(r.file_name, Wrap(q.keyword))
          \/ Like(r.detail, Wrap(q.keyword))
          \/ Like(r.location, Wrap(q.keyword))
    /\ q.date_from # << >> => date(r.ts) >= date(q.date_from)
    /\ q.date_to # << >> => date(r.ts) <= date(q.date_to)

\* The rows the two queries return.
FetchRows(rs, limit) == Select(rs, limit)

SearchRows(rs, q, limit) == Select({ r \in rs : Where(r, q) }, limit)

fetch_results(limit) ==
    /\ last' = [op |-> "fetch", limit |-> limit, ret |-> FetchRows(rows, limit)]
    /\ UNCHANGED << files, rows, seq, procs, gui, db_up >>

search_results(q, limit) ==
    /\ last' = [op |-> "search", q |-> q, limit |-> limit,
                ret |-> SearchRows(rows, q, limit)]
    /\ UNCHANGED << files, rows, seq, procs, gui, db_up >>

\* The predicate sets tried: none, each single predicate, each pair.
NoQuery ==
    [defect_type |-> "", severity |-> "", action |-> "", location |-> << >>,
     keyword |-> << >>, date_from |-> << >>, date_to |-> << >>]

Predicates ==
    { <<"defect_type", "dent">>, <<"severity", "C">>, <<"action", "Pass">>,
      <<"location", <<"a">> >>, <<"keyword", <<"b">> >>,
      <<"keyword", <<"_">> >>, <<"date_from", <<2>> >>,
      <<"date_to", <<1>> >> }

Queries ==
    { NoQuery } \cup
    { [NoQuery EXCEPT ![p[1]] = p[2]] : p \in Predicates } \cup
    { [NoQuery EXCEPT ![p[1]] = p[2], ![o[1]] = o[2]] :
        p \in Predicates, o \in Predicates }

\* The clock is read only when the caller passes no ts.
Clock(ts) == IF ts = <<>> THEN Times ELSE { <<>> }

\* One call that writes the store, or a file rewritten by the environment.
Write ==
    \/ \E p \in Paths, b \in Contents :
          WriteFile(p, b) /\ UNCHANGED << gui, db_up >>
    \/ \E p \in Paths, v \in Verdicts, ts \in Times \cup {<<>>} :
          \E now \in Clock(ts) :
             insert_result(p, v, ts, now) /\ UNCHANGED << gui, db_up >>
    \/ \E p \in Paths, v \in Verdicts, ts \in Times \cup {<<>>} :
          \E now \in Clock(ts) :
             upsert_result(p, v, ts, now) /\ UNCHANGED << gui, db_up >>
    \/ \E ids \in { l \in IdLists(seq) : Len(l) < 2 \/ l[1] <= l[2] } :
          delete_results(ids) /\ UNCHANGED << gui, db_up >>

\* Calls made one after the other: no call is in progress between two steps.
Next == Write

Spec == Init /\ [][Next]_vars

\* ------------------------------------------------- the queries on their own
\* fetch_results and search_results are functions of the table and their
\* arguments.  They are applied to every table the writers can leave within
\* the bounds: at most one row per content, built by the INSERT of the
\* writers, no id, path or digest twice.  (Spec keeps rows \in Tables.)
CandidateRows ==
    { NewRow(id, p, <<"sha256">> \o b, v, t) :
        id \in 1..MaxId, p \in Paths, b \in Contents, v \in Verdicts, t \in Times }

Compatible(r1, r2) ==
    /\ r1.id # r2.id
    /\ r1.image_path # r2.image_path
    /\ r1.image_hash # r2.image_hash

\* Two contents, so at most two rows.
Tables ==
    { {} } \cup
    UNION { { {r1, r2} : r2 \in { r \in CandidateRows : r = r1 \/ Compatible(r1, r) } } :
            r1 \in CandidateRows }

InitQuery ==
    /\ files \in [Paths -> Contents]
    /\ rows \in Tables
    /\ seq = MaxId
    /\ last = [op |-> "init"]
    /\ procs = NoCalls
    /\ gui = NoWindow
    /\ db_up = TRUE

Queried == last.op \in {"fetch", "search"}

\* One query per run: a query changes nothing but `last`.
NextQuery ==
    \/ \E limit \in 0..MaxLimit : ~Queried /\ fetch_results(limit)
    \/ \E q \in Queries, limit \in 0..MaxLimit : ~Queried /\ search_results(q, limit)

SpecQuery == InitQuery /\ [][NextQuery]_vars

\* ------------------------------------------------ one call on every table
\* Any one operation, applied to every table the writers can leave and
\* every value of the id counter that goes with it.
InitCall ==
    /\ files \in [Paths -> Contents]
    /\ rows \in Tables
    /\ seq \in { s \in 0..MaxId : \A r \in rows : r.id <= s }
    /\ last = [op |-> "init"]
    /\ procs = NoCalls
    /\ gui = NoWindow
    /\ db_up = TRUE

Called == last.op # "init"

NextCall ==
    \/ ~Called /\ Write
    \/ \E limit \in 0..MaxLimit : ~Called /\ fetch_results(limit)
    \/ \E q \in Queries, limit \in 0..MaxLimit : ~Called /\ search_results(q, limit)

SpecCall == InitCall /\ [][NextCall]_vars

\* ------------------------------------------------------ the decision engine
\* api/local_ai_api.py.  Probabilities are counted in units of 1/Scale (of
\* 1/HeadScale for the severity and location heads); NaN is the float NaN.
Scale == 12
HeadScale == 1

NaN == -1

\* NO_DEFECT_THRESHOLD = 0.25, in hundredths.
NO_DEFECT_THRESHOLD == 25

INTERNAL_DEFECT_LABELS ==
    << "dent", "scratch", "crack", "glass shatter", "lamp broken", "tire flat" >>

SEVERITY_LABELS == << "minor", "moderate", "severe" >>

LOCATION_LABELS == << "front", "rear", "side" >>

\* CONFIG_DEFECT_LABELS is split from the same DEFAULT_DEFECT_LABELS string.
CONFIG_DEFECT_LABELS == DEFECT_LABELS

\* s.lower().replace(" ", "_").strip(), on the labels of the two lists: the
\* three with a blank get an underscore, the others are lower case already.
_norm(s) ==
    CASE s = "glass shatter" -> "glass_shatter"
      [] s = "lamp broken" -> "lamp_broken"
      [] s = "tire flat" -> "tire_flat"
      [] OTHER -> s

\* CONFIG_DEFECT_MAP = {_norm(lbl): lbl for lbl in CONFIG_DEFECT_LABELS}: the
\* comprehension keeps the last label of a key.
CONFIG_DEFECT_MAP ==
    [key \in { _norm(CONFIG_DEFECT_LABELS[i]) : i \in 1..Len(CONFIG_DEFECT_LABELS) } |->
        LET hits == { i \in 1..Len(CONFIG_DEFECT_LABELS) :
                        _norm(CONFIG_DEFECT_LABELS[i]) = key }
        IN  CONFIG_DEFECT_LABELS[CHOOSE i \in hits : \A j \in hits : j <= i]]

\* CONFIG_DEFECT_MAP.get(_norm(name), name)
map_internal_defect_to_config(name) ==
    IF _norm(name) \in DOMAIN CONFIG_DEFECT_MAP
    THEN CONFIG_DEFECT_MAP[_norm(name)] ELSE name

_severity_to_abc(sev) ==
    IF sev = "severe" THEN "A" ELSE IF sev = "moderate" THEN "B" ELSE "C"

\* A slip of the table: the docstring's Scrap for tier A.
_decide_action_Scrap(label, severity_abc) ==
    IF label = "no_defect" THEN "Pass"
    ELSE IF severity_abc = "A" THEN "Scrap"
    ELSE IF severity_abc = "B" THEN "Rework"
    ELSE "Hold"

_decide_action(label, severity_abc) ==
    IF label = "no_defect" THEN "Pass"
    ELSE IF severity_abc = "A" THEN "Reject"
    ELSE IF severity_abc = "B" THEN "Rework"
    ELSE "Hold"

\* The keys of korean_label: another label is a KeyError.
DescribedLabels ==
    { "dent", "scratch", "crack", "glass shatter", "lamp broken", "tire flat" }

\* The f-string's three parts, or the fixed sentence for no_defect.
_build_description(label, severity_abc, location) ==
    IF label = "no_defect" THEN << "no_defect_detected" >>
    ELSE << location, severity_abc, label >>

\* The softmax outputs: k probabilities that add up to one (n units).
RECURSIVE Distributions(_, _)
Distributions(k, n) ==
    IF k = 1 THEN { << n >> }
    ELSE UNION { { << a >> \o d : d \in Distributions(k - 1, n - a) } : a \in 0..n }

\* softmax of logits with a NaN or an infinity in them is NaN throughout.
AllNaN(k) == [i \in 1..k |-> NaN]

DefectProbs == Distributions(Len(INTERNAL_DEFECT_LABELS), Scale)
                 \cup { AllNaN(Len(INTERNAL_DEFECT_LABELS)) }

HeadProbs == Distributions(Len(SEVERITY_LABELS), HeadScale)
                 \cup { AllNaN(Len(SEVERITY_LABELS)) }

\* probs.max(dim=1) / probs.argmax(dim=1): the largest value and the first
\* index that has it; with NaN the value is NaN and the index is one of the
\* NaN positions, which one is not specified.
MaxValue(v) ==
    IF \E i \in 1..Len(v) : v[i] = NaN THEN NaN
    ELSE CHOOSE m \in { v[i] : i \in 1..Len(v) } : \A i \in 1..Len(v) : v[i] <= m

ArgMax(v) ==
    IF \E i \in 1..Len(v) : v[i] = NaN
    THEN { i \in 1..Len(v) : v[i] = NaN }
    ELSE { i \in 1..Len(v) : /\ \A j \in 1..Len(v) : v[j] <= v[i]
                             /\ \A j \in 1..(i - 1) : v[j] < v[i] }

\* `conf < NO_DEFECT_THRESHOLD` on floats: false when conf is NaN.
BelowThreshold_Inclusive(conf) ==
    conf # NaN /\ conf * 100 <= NO_DEFECT_THRESHOLD * Scale

BelowThreshold(conf) ==
    conf # NaN /\ conf * 100 < NO_DEFECT_THRESHOLD * Scale

\* `if conf < NO_DEFECT_THRESHOLD: final_label = "no_defect"`, else the
\* winning class's label as the configuration spells it.
FinalLabel(conf, idx) ==
    IF BelowThreshold(conf) THEN "no_defect"
    ELSE map_internal_defect_to_config(INTERNAL_DEFECT_LABELS[idx])

\* Two slips of the returned dict: the confidence reset on abstention, and
\* the severity forced to the lowest tier on abstention.
Verdict_ConfidenceReset(final_label, conf, sev_abc, loc_label) ==
    [label |-> final_label,
     confidence |-> IF final_label = "no_defect" THEN 0 ELSE conf,
     description |-> _build_description(final_label, sev_abc, loc_label),
     severity |-> sev_abc,
     location |-> loc_label,
     action |-> _decide_action(final_label, sev_abc)]

Verdict_SeverityForced(final_label, conf, sev_abc, loc_label) ==
    [label |-> final_label,
     confidence |-> conf,
     description |-> _build_description(final_label, sev_abc, loc_label),
     severity |-> IF final_label = "no_defect" THEN "C" ELSE sev_abc,
     location |-> loc_label,
     action |-> _decide_action(final_label, sev_abc)]

\* The dict classify_image returns.
Verdict(final_label, conf, sev_abc, loc_label) ==
    [label |-> final_label,
     confidence |-> conf,
     description |-> _build_description(final_label, sev_abc, loc_label),
     severity |-> sev_abc,
     location |-> loc_label,
     action |-> _decide_action(final_label, sev_abc)]

\* classify_image(image_path): Image.open raises on a file that is no image;
\* else the three heads' softmax outputs decide.  Nothing checks the outputs.
\* _build_description raises KeyError on a label korean_label does not have.
classify_image(image_path, readable, probs_def, probs_sev, probs_loc) ==
    /\ IF ~readable
       THEN last' = [op |-> "classify", path |-> image_path,
                     exc |-> "UnidentifiedImageError"]
       ELSE \E idx \in ArgMax(probs_def), idx_sev \in ArgMax(probs_sev),
               idx_loc \in ArgMax(probs_loc) :
            \E conf \in { MaxValue(probs_def) } :
            \E final_label \in { FinalLabel(conf, idx) } :
              last' = [op |-> "classify", path |-> image_path,
                       probs_def |-> probs_def, idx |-> idx,
                       idx_sev |-> idx_sev, idx_loc |-> idx_loc,
                       ret |-> IF final_label \in DescribedLabels \cup {"no_defect"}
                               THEN Verdict(final_label, conf,
                                            _severity_to_abc(SEVERITY_LABELS[idx_sev]),
                                            LOCATION_LABELS[idx_loc])
                               ELSE [label |-> final_label],
                       exc |-> IF final_label \in DescribedLabels \cup {"no_defect"}
                               THEN "none" ELSE "KeyError"]
    /\ UNCHANGED << files, rows, seq, procs, gui, db_up >>

\* The engine reads one image file; which one plays no part in the verdict.
InitEngine ==
    /\ files = [p \in Paths |-> CHOOSE b \in Contents : TRUE]
    /\ rows = {}
    /\ seq = 0
    /\ last = [op |-> "init"]
    /\ procs = NoCalls
    /\ gui = NoWindow
    /\ db_up = TRUE

\* One classification per run: the engine keeps no state between calls.
NextEngine ==
    LET p == CHOOSE x \in Paths : TRUE
    IN  \/ /\ last.op = "init"
            /\ classify_image(p, FALSE, <<>>, <<>>, <<>>)
        \/ /\ last.op = "init"
            /\ \E probs_def \in DefectProbs, probs_sev \in HeadProbs,
                  probs_loc \in HeadProbs :
                 classify_image(p, TRUE, probs_def, probs_sev, probs_loc)

SpecEngine == InitEngine /\ [][NextEngine]_vars

\* ------------------------------------------------------- overlapping calls
\* Two callers, each inside one insert_result or upsert_result call on its
\* own connection.  A step is what SQLite makes atomic: one statement, or
\* the commit.  A connection's first writing statement takes the database's
\* write lock (a second writer waits in its busy handler) and keeps it to
\* the commit; what it wrote is seen by the other connection from the commit
\* on.  A SELECT takes no lock that outlives it.  A statement that raises
\* leaves the function without commit() or close(): the connection keeps
\* its open transaction, and the write lock, until it is finalised.
\* Waiting writers are taken to get the lock in time (no busy timeout).
Writing(ps) == { t \in Callers : ps[t].pc \in {"written", "raised"} }

LockFree_NoLock(ps) == TRUE

LockFree(ps) == Writing(ps) = {}

\* The head of both functions: ensure_schema(), the file's digest, the
\* label check, _connect().
Begin(t, op, image_path, v, ts) ==
    /\ procs[t].pc = "idle"
    /\ procs' = [procs EXCEPT ![t] =
                    [pc |-> "connected", op |-> op, path |-> image_path,
                     hash |-> _file_sha256(files, image_path), arg |-> v,
                     ts |-> ts]]
    /\ UNCHANGED << files, rows, seq, last, gui, db_up >>

\* insert_result: cur.execute(INSERT OR IGNORE ...).
InsertOrIgnore(t) ==
    LET c  == procs[t]
        ok == ~UniqueViolation(rows, c.path, c.hash)
    IN  /\ c.pc = "connected" /\ c.op = "insert"
        /\ LockFree(procs)
        /\ seq < MaxId
        /\ procs' = [procs EXCEPT ![t] =
                       [pc |-> "written", ret |-> ok,
                        newseq |-> NextId(rows, seq),
                        newrows |-> IF ok
                                    THEN rows \cup {NewRow(NextId(rows, seq), c.path,
                                                           c.hash, c.arg, c.ts)}
                                    ELSE rows] @@ c]
        /\ UNCHANGED << files, rows, seq, last, gui, db_up >>

\* upsert_result: cur.execute(SELECT id ... WHERE image_hash = ?), fetchone().
SelectId(t) ==
    LET c == procs[t]
    IN  /\ c.pc = "connected" /\ c.op = "upsert"
        /\ procs' = [procs EXCEPT ![t] =
                        [pc |-> "selected", found |-> SelectIdByHash(rows, c.hash)] @@ c]
        /\ UNCHANGED << files, rows, seq, last, gui, db_up >>

\* upsert_result: the UPDATE of the row found, else the plain INSERT.
UpdateOrInsert(t) ==
    LET c == procs[t]
        raise == procs' = [procs EXCEPT ![t] =
                             [pc |-> "raised", exc |-> "IntegrityError"] @@ c]
    IN  /\ c.pc = "selected"
        /\ LockFree(procs)
        /\ IF c.found # {}
           THEN \E rid \in c.found :
                  IF UpdateViolation(rows, rid, c.path)
                  THEN raise
                  ELSE procs' = [procs EXCEPT ![t] =
                          [pc |-> "written", ret |-> rid, newseq |-> seq,
                           newrows |-> { IF r.id = rid
                                         THEN UpdateRow(r, c.path, c.arg, c.ts)
                                         ELSE r : r \in rows }] @@ c]
           ELSE IF UniqueViolation(rows, c.path, c.hash)
                THEN raise
                ELSE /\ seq < MaxId
                     /\ procs' = [procs EXCEPT ![t] =
                          [pc |-> "written", ret |-> NextId(rows, seq),
                           newseq |-> NextId(rows, seq),
                           newrows |-> rows \cup {NewRow(NextId(rows, seq), c.path,
                                                         c.hash, c.arg, c.ts)}] @@ c]
        /\ UNCHANGED << files, rows, seq, last, gui, db_up >>

\* delete_results: a non-empty id list opens a connection; an empty one
\* returns 0 before that.
BeginDelete(t, ids) ==
    /\ procs[t].pc = "idle"
    /\ procs' = [procs EXCEPT ![t] =
                    IF Len(ids) = 0
                    THEN [pc |-> "done", op |-> "delete", ids |-> ids, ret |-> 0,
                          exc |-> "none"]
                    ELSE [pc |-> "connected", op |-> "delete", ids |-> ids]]
    /\ UNCHANGED << files, rows, seq, last, gui, db_up >>

\* delete_results: cur.execute(DELETE ... WHERE id IN (...)), cur.rowcount.
DeleteStmt(t) ==
    LET c == procs[t]
    IN  /\ c.pc = "connected" /\ c.op = "delete"
        /\ LockFree(procs)
        /\ procs' = [procs EXCEPT ![t] =
                       [pc |-> "written", ret |-> DeleteCount(rows, c.ids),
                        newseq |-> seq,
                        newrows |-> DeleteWhereIdIn(rows, c.ids)] @@ c]
        /\ UNCHANGED << files, rows, seq, last, gui, db_up >>

\* conn.commit(), conn.close(), return.
Commit(t) ==
    LET c == procs[t]
    IN  /\ c.pc = "written"
        /\ rows' = c.newrows
        /\ seq' = c.newseq
        /\ procs' = [procs EXCEPT ![t] =
                        IF c.op = "delete"
                        THEN [pc |-> "done", op |-> c.op, ids |-> c.ids,
                              ret |-> c.ret, exc |-> "none"]
                        ELSE [pc |-> "done", op |-> c.op, path |-> c.path,
                              hash |-> c.hash, arg |-> c.arg, ts |-> c.ts,
                              ret |-> c.ret, exc |-> "none"]]
        /\ UNCHANGED << files, last, gui, db_up >>

\* The connection a raising call left behind is finalised: its transaction
\* is rolled back and the lock released.
Finalize(t) ==
    LET c == procs[t]
    IN  /\ c.pc = "raised"
        /\ procs' = [procs EXCEPT ![t] =
                        [pc |-> "done", op |-> c.op, path |-> c.path, hash |-> c.hash,
                         arg |-> c.arg, ts |-> c.ts, ret |-> 0, exc |-> c.exc]]
        /\ UNCHANGED << files, rows, seq, last, gui, db_up >>

InitConc ==
    /\ files \in [Paths -> Contents]
    /\ rows = {}
    /\ seq = 0
    /\ last = [op |-> "init"]
    /\ procs = NoCalls
    /\ gui = NoWindow
    /\ db_up = TRUE

NextConc ==
    \/ \E t \in Callers, op \in {"insert", "upsert"}, p \in Paths,
          v \in Verdicts, ts \in Times : Begin(t, op, p, v, ts)
    \/ \E t \in Callers, ids \in IdLists(1) : BeginDelete(t, ids)
    \/ \E t \in Callers : InsertOrIgnore(t)
    \/ \E t \in Callers : SelectId(t)
    \/ \E t \in Callers : UpdateOrInsert(t)
    \/ \E t \in Callers : DeleteStmt(t)
    \/ \E t \in Callers : Commit(t)
    \/ \E t \in Callers : Finalize(t)

SpecConc == InitConc /\ [][NextConc]_vars

\* The same calls on a store that already holds one row, written by an
\* earlier call for a file as it is now.
InitStored ==
    /\ files \in [Paths -> Contents]
    /\ \E p \in Paths, v \in Verdicts, ts \in Times :
          rows = {NewRow(1, p, _file_sha256(files, p), v, ts)}
    /\ seq = 1
    /\ last = [op |-> "init"]
    /\ procs = NoCalls
    /\ gui = NoWindow
    /\ db_up = TRUE

SpecStored == InitStored /\ [][NextConc]_vars

\* `defect_type in DEFECT_LABELS`
IsLabel(x) == \E i \in 1..Len(DEFECT_LABELS) : DEFECT_LABELS[i] = x

\* ------------------------------------------------------------ main window
\* MainWindow (gui/main_app.py): one handler runs at a time on the GUI
\* thread.  on_upload_folder is a loop that lets the event loop run after
\* each file (processEvents behind a window-modal progress dialog): the
\* only event taken there is the dialog's cancel button.  The results table
\* shows what the store holds (every handler that writes refreshes it).
\* Handlers that only read the store (search, CSV export, statistics) touch
\* none of the state below.  _batch_files is never given an element, so
\* _advance_batch_if_any does nothing.
None == << >>

\* ACTIONS (the name is a reserved word here).
Action_s == { "Pass", "Rework", "Scrap", "Hold", "Reject" }

\* "불량 유형 분류 중…", the text shown while classify_image runs.
Classifying == << "classifying" >>

\* fetch_results(limit=100000) of on_upload_folder.
PrefetchLimit == 100000

\* Softmax outputs: as even as n units go over k classes, and all on class w.
Flat(k, n) == [i \in 1..k |-> (n \div k) + (IF i <= n % k THEN 1 ELSE 0)]
Peak(k, n, w) == [i \in 1..k |-> IF i = w THEN n ELSE 0]

\* What classify_image can do with an image of a session: raise on a file
\* that is no image, or return the verdict of the heads' outputs (no finding
\* or a dent, severity severe, location front).
ClassifyOutcomes(probs_def, probs_sev, probs_loc) ==
    { LET conf        == MaxValue(probs_def)
          final_label == FinalLabel(conf, idx)
      IN  IF final_label \in DescribedLabels \cup {"no_defect"}
          THEN [exc |-> "none",
                ret |-> Verdict(final_label, conf,
                                _severity_to_abc(SEVERITY_LABELS[idx_sev]),
                                LOCATION_LABELS[idx_loc])]
          ELSE [exc |-> "KeyError"] :
      idx \in ArgMax(probs_def), idx_sev \in ArgMax(probs_sev),
      idx_loc \in ArgMax(probs_loc) }

EngineOutcomes ==
    { [exc |-> "UnidentifiedImageError"] } \cup
    UNION { ClassifyOutcomes(pd, ps, Peak(Len(LOCATION_LABELS), HeadScale, 1)) :
            pd \in { Flat(Len(INTERNAL_DEFECT_LABELS), Scale),
                     Peak(Len(INTERNAL_DEFECT_LABELS), Scale, 1) },
            ps \in { Peak(Len(SEVERITY_LABELS), HeadScale, 3) } }

\* The labels the callers treat as "no finding".
NoDefectNames == { "none", "ok", "normal", "no_defect" }

\* `result.get("label") or DEFECT_LABELS[0]`, then the membership check.
GuiLabel(result) ==
    IF result.label = "" \/ ~IsLabel(result.label) THEN DEFECT_LABELS[1]
    ELSE result.label

\* A slip of on_save: the no-finding rule left out.
SaveFields_NoRule(result, desc) ==
    [defect_type |-> GuiLabel(result),
     severity |-> IF result.severity \in {"A", "B", "C"} THEN result.severity ELSE "C",
     location |-> IF result.location = "" THEN "unknown" ELSE result.location,
     score |-> result.confidence,
     detail |-> desc,
     action |-> IF result.action \in Action_s THEN result.action ELSE "Hold"]

\* on_save: the fields passed to upsert_result, from the last verdict and
\* the text panel.  A no-finding label forces Pass / C / none.
SaveFields(result, desc) ==
    LET defect_type == GuiLabel(result)
        severity == IF result.severity \in {"A", "B", "C"} THEN result.severity ELSE "C"
        location == IF result.location = "" THEN "unknown" ELSE result.location
        action   == IF result.action \in Action_s THEN result.action ELSE "Hold"
        rule     == defect_type \in NoDefectNames
    IN  [defect_type |-> defect_type,
         severity |-> IF rule THEN "C" ELSE severity,
         location |-> IF rule THEN "none" ELSE location,
         score |-> result.confidence,
         detail |-> desc,
         action |-> IF rule THEN "Pass" ELSE action]

\* on_upload_folder: the same fields from the file's verdict; the detail is
\* the verdict's description.
BatchFields(result) ==
    LET label    == GuiLabel(result)
        severity == IF result.severity \in {"A", "B", "C"} THEN result.severity ELSE "C"
        location == IF result.location = "" THEN "unknown" ELSE result.location
        action   == IF result.action \in Action_s THEN result.action ELSE "Hold"
        rule     == label \in NoDefectNames
    IN  [defect_type |-> label,
         severity |-> IF rule THEN "C" ELSE severity,
         location |-> IF rule THEN "none" ELSE location,
         score |-> result.confidence,
         detail |-> result.description,
         action |-> IF rule THEN "Pass" ELSE action]

\* The image files of a session: two files with the same bytes, or with
\* different ones (which bytes plays no part).  They are not rewritten
\* while the window is open; Spec has the store's functions on files that
\* change.
SessionFiles ==
    { f \in [Paths -> Contents] :
        f[CHOOSE p \in Paths : TRUE] = CHOOSE b \in Contents : TRUE }

\* MainWindow.__init__: no image, no verdict, no batch.
\* `classified_from` and `fresh_upload` are history: the path the last
\* verdict was computed from, and whether an image was uploaded and not
\* classified since.
InitGui ==
    /\ files \in SessionFiles
    /\ rows = {}
    /\ seq = 0
    /\ last = [op |-> "init"]
    /\ procs = NoCalls
    /\ gui = [pc |-> "idle", current_image_path |-> None,
              _last_classify |-> None, txtResult |-> None,
              classified_from |-> None, fresh_upload |-> FALSE,
              batch |-> None]
    /\ db_up = TRUE

\* A handler that returns after a message box, before it changes anything.
Returns(name, why) ==
    /\ last' = [op |-> name, outcome |-> why]
    /\ UNCHANGED << files, rows, seq, procs, gui, db_up >>

\* A slip of on_upload_image: the last verdict is kept.
Uploaded_KeepsVerdict(g, path) ==
    [g EXCEPT !.current_image_path = path,
              !.txtResult = None,
              !.fresh_upload = TRUE]

\* The window after on_upload_image took a path: the image is current, the
\* text panel and the last verdict are cleared.
Uploaded(g, path) ==
    [g EXCEPT !.current_image_path = path,
              !.txtResult = None,
              !._last_classify = None,
              !.classified_from = None,
              !.fresh_upload = TRUE]

\* on_upload_image: the file dialog gives a path, or nothing on cancel.
on_upload_image(path) ==
    /\ gui.pc = "idle"
    /\ IF path = None
       THEN Returns("on_upload_image", "no_path")
       ELSE /\ gui' = Uploaded(gui, path)
            /\ last' = [op |-> "on_upload_image", outcome |-> "ok"]
            /\ UNCHANGED << files, rows, seq, procs, db_up >>

\* on_classify: classify_image is not guarded; when it raises, the handler
\* ends there, with the text panel showing the progress text and the last
\* verdict as it was.
on_classify(o) ==
    /\ gui.pc = "idle"
    /\ IF gui.current_image_path = None
       THEN Returns("on_classify", "no_image")
       ELSE /\ gui' = IF o.exc # "none"
                      THEN [gui EXCEPT !.txtResult = Classifying]
                      ELSE [gui EXCEPT !._last_classify = o.ret,
                                       !.txtResult = o.ret.description,
                                       !.classified_from = gui.current_image_path,
                                       !.fresh_upload = FALSE]
            /\ last' = [op |-> "classify", path |-> gui.current_image_path,
                        exc |-> o.exc]
            /\ UNCHANGED << files, rows, seq, procs, db_up >>

\* A slip: the failing call has left a row for the path, with no digest.
Raises_LeavesRow(op, image_path, exc) ==
    /\ last' = [op |-> op, path |-> image_path, ret |-> 0, exc |-> exc,
                commit |-> TRUE]
    /\ rows' = rows \cup {NewRow(NextId(rows, seq), image_path, << "sha256" >>,
                                 CHOOSE v \in Verdicts : TRUE,
                                 CHOOSE t \in Times : TRUE)}
    /\ seq' = NextId(rows, seq)

\* A store call that cannot open the database (sqlite3.OperationalError in
\* ensure_schema) or cannot read the file (OSError in _file_sha256): the
\* exception leaves the function before any statement runs.
Raises(op, image_path, exc) ==
    /\ last' = [op |-> op, path |-> image_path, ret |-> 0, exc |-> exc,
                commit |-> FALSE]
    /\ UNCHANGED << rows, seq >>

\* on_save: three early returns, then upsert_result inside try/except; the
\* table is refreshed after a successful call.
on_save(hashable, now) ==
    /\ gui.pc = "idle"
    /\ IF gui.current_image_path = None THEN Returns("on_save", "no_image")
       ELSE IF gui._last_classify = None THEN Returns("on_save", "no_result")
       ELSE IF gui.txtResult = None THEN Returns("on_save", "no_text")
       ELSE /\ IF ~db_up
               THEN Raises("upsert", gui.current_image_path, "OperationalError")
               ELSE IF ~hashable
               THEN Raises("upsert", gui.current_image_path, "OSError")
               ELSE upsert_result(gui.current_image_path,
                                  SaveFields(gui._last_classify, gui.txtResult),
                                  << >>, now)
            /\ UNCHANGED << files, procs, gui, db_up >>

\* _on_row_dbl_clicked: the row's detail goes to the text panel; when the
\* row's file exists it becomes the current image.  The last verdict stays.
_on_row_dbl_clicked(r, exists) ==
    /\ gui.pc = "idle"
    /\ gui' = [gui EXCEPT !.txtResult = r.detail,
                          !.current_image_path =
                              IF exists THEN r.image_path ELSE gui.current_image_path]
    /\ last' = [op |-> "_on_row_dbl_clicked", id |-> r.id,
                outcome |-> IF exists THEN "ok" ELSE "no_file"]
    /\ UNCHANGED << files, rows, seq, procs, db_up >>

\* on_delete_selected: the selected rows' ids, confirmed, go to
\* delete_results inside try/except.
on_delete_selected(ids) ==
    /\ gui.pc = "idle"
    /\ IF Len(ids) = 0 THEN Returns("on_delete_selected", "no_selection")
       ELSE /\ IF ~db_up
               THEN /\ last' = [op |-> "delete", ids |-> ids, ret |-> 0,
                                exc |-> "OperationalError", commit |-> FALSE]
                    /\ UNCHANGED << rows, seq >>
               ELSE delete_results(ids)
            /\ UNCHANGED << files, procs, gui, db_up >>

\* The image paths already stored: column 1 of fetch_results' rows, or no
\* path when the query raises.
ExistingPaths ==
    IF db_up
    THEN LET existing_rows == FetchRows(rows, PrefetchLimit)
         IN  { existing_rows[i][2] : i \in 1..Len(existing_rows) }
    ELSE {}

\* unique_paths: the candidates in their order, without repeats and without
\* the paths already stored.
RECURSIVE UniquePaths(_, _, _)
UniquePaths(candidates, seen, existing_paths) ==
    IF candidates = << >> THEN << >>
    ELSE LET f == Head(candidates)
         IN  IF f \in seen \/ f \in existing_paths
             THEN UniquePaths(Tail(candidates), seen \cup {f}, existing_paths)
             ELSE << f >> \o UniquePaths(Tail(candidates), seen \cup {f}, existing_paths)

\* on_upload_folder up to the loop: the image files of the folder chosen.
\* (A batch is started only when the ids it may use are within MaxId.)
on_upload_folder(candidates) ==
    /\ gui.pc = "idle"
    /\ \E unique_paths \in { UniquePaths(candidates, {}, ExistingPaths) } :
         IF candidates = << >> THEN Returns("on_upload_folder", "no_images")
         ELSE IF unique_paths = << >> THEN Returns("on_upload_folder", "nothing_new")
         ELSE /\ seq + Len(unique_paths) <= MaxId
              /\ gui' = [gui EXCEPT !.pc = "batch",
                            !.batch = [unique_paths |-> unique_paths, i |-> 1,
                                       saved |-> 0, errors |-> 0, added |-> 0,
                                       wasCanceled |-> FALSE,
                                       prefetched |-> db_up, log |-> << >>]]
              /\ last' = [op |-> "on_upload_folder", outcome |-> "loop"]
              /\ UNCHANGED << files, rows, seq, procs, db_up >>

\* The cancel button of the progress dialog, taken by processEvents after a
\* file of the loop.
Cancel ==
    /\ gui.pc = "batch"
    /\ gui.batch.i > 1
    /\ ~gui.batch.wasCanceled
    /\ gui' = [gui EXCEPT !.batch.wasCanceled = TRUE]
    /\ last' = [op |-> "cancel"]
    /\ UNCHANGED << files, rows, seq, procs, db_up >>

\* `for i, fpath in enumerate(unique_paths, start=1): if prog.wasCanceled():
\* break`: there is a next file and no cancellation was seen.
LoopGoesOn_NoCheck(b) == b.i <= Len(b.unique_paths)

LoopGoesOn(b) == b.i <= Len(b.unique_paths) /\ ~b.wasCanceled

\* A slip of the except clause: the exception ends the loop.
Failed_Abort(g, what) ==
    [g EXCEPT !.current_image_path = g.batch.unique_paths[g.batch.i],
              !.batch.i = Len(g.batch.unique_paths) + 1,
              !.batch.errors = g.batch.errors + 1,
              !.batch.log = Append(g.batch.log, what)]

\* `except Exception`: the file counts as an error and the loop goes on
\* with the next file.
Failed(g, what) ==
    [g EXCEPT !.current_image_path = g.batch.unique_paths[g.batch.i],
              !.batch.i = g.batch.i + 1,
              !.batch.errors = g.batch.errors + 1,
              !.batch.log = Append(g.batch.log, what)]

\* One pass of the loop body: the cancel check, then the file inside
\* try/except Exception.  `added` counts the rows the batch put in the
\* store, `log` has one entry per file tried.
BatchItem(o, hashable, now) ==
    LET b     == gui.batch
        fpath == b.unique_paths[b.i]
    IN  /\ gui.pc = "batch"
        /\ LoopGoesOn(b)
        /\ IF o.exc # "none"
           THEN /\ last' = [op |-> "classify", path |-> fpath, exc |-> o.exc]
                /\ UNCHANGED << rows, seq >>
                /\ gui' = Failed(gui, "classify_error")
           ELSE IF ~db_up
           THEN /\ Raises("insert", fpath, "OperationalError")
                /\ gui' = Failed(gui, "store_error")
           ELSE IF ~hashable
           THEN /\ Raises("insert", fpath, "OSError")
                /\ gui' = Failed(gui, "read_error")
           ELSE /\ insert_result(fpath, BatchFields(o.ret), << >>, now)
                /\ gui' = [gui EXCEPT
                              !.current_image_path = fpath,
                              !.txtResult = o.ret.description,
                              !.batch.i = b.i + 1,
                              !.batch.saved = b.saved + 1,
                              !.batch.added = b.added + (IF last'.ret THEN 1 ELSE 0),
                              !.batch.log = Append(b.log, IF last'.ret THEN "added"
                                                                      ELSE "ignored")]
        /\ UNCHANGED << files, procs, db_up >>

\* The loop is left (all files tried, or cancelled): the closing message
\* with the counts, and the table refreshed.
BatchEnd ==
    LET b == gui.batch
    IN  /\ gui.pc = "batch"
        /\ ~LoopGoesOn(b)
        /\ gui' = [gui EXCEPT !.pc = "idle", !.batch = None]
        /\ last' = [op |-> "on_upload_folder", outcome |-> "done",
                    total |-> Len(b.unique_paths), saved |-> b.saved,
                    errors |-> b.errors, added |-> b.added, log |-> b.log,
                    wasCanceled |-> b.wasCanceled]
        /\ UNCHANGED << files, rows, seq, procs, db_up >>

\* The database file becomes unreachable, for the rest of the session.
StoreChanges ==
    /\ db_up
    /\ db_up' = FALSE
    /\ UNCHANGED << files, rows, seq, last, procs, gui >>

\* The database file is reachable again.
StoreReturns ==
    /\ ~db_up
    /\ db_up' = TRUE
    /\ UNCHANGED << files, rows, seq, last, procs, gui >>

\* The folders chosen: the files of Paths in any order, or one of them.
Folders ==
    { << >> } \cup { << p >> : p \in Paths }
              \cup { pq \in Paths \X Paths : pq[1] # pq[2] }

\* The clock of a session.
Now == { CHOOSE t \in Times : TRUE }

NextGui ==
    \/ \E path \in Paths \cup {None} : on_upload_image(path)
    \/ \E o \in EngineOutcomes : on_classify(o)
    \/ \E hashable \in BOOLEAN, now \in Now : on_save(hashable, now)
    \/ \E r \in rows, exists \in BOOLEAN : _on_row_dbl_clicked(r, exists)
    \/ \E ids \in { << >> } \cup { << r.id >> : r \in rows } : on_delete_selected(ids)
    \/ \E candidates \in Folders : on_upload_folder(candidates)
    \/ Cancel
    \/ \E o \in EngineOutcomes, hashable \in BOOLEAN, now \in Now :
          BatchItem(o, hashable, now)
    \/ BatchEnd
    \/ StoreChanges

SpecGui == InitGui /\ [][NextGui]_vars

\* Sessions of folder uploads only (and deletions, which make room for
\* the next upload).
NextBatch ==
    \/ \E candidates \in Folders : on_upload_folder(candidates)
    \/ Cancel
    \/ \E o \in EngineOutcomes, hashable \in BOOLEAN, now \in Now :
          BatchItem(o, hashable, now)
    \/ BatchEnd
    \/ \E ids \in { << >> } \cup { << r.id >> : r \in rows } : on_delete_selected(ids)
    \/ StoreChanges
    \/ StoreReturns

SpecBatch == InitGui /\ [][NextBatch]_vars

\* The loop of on_upload_folder is sequential code on the GUI thread: once
\* started it goes on to the next file, or to its end, without waiting for
\* anything but the calls it makes.
FairBatch ==
    /\ SpecBatch
    /\ WF_vars(\E o \in EngineOutcomes, hashable \in BOOLEAN, now \in Now :
                  BatchItem(o, hashable, now))
    /\ WF_vars(BatchEnd)

\* ------------------------------------------------------------------ claims
\* The row a call described by l (a value of `last`) writes: its fields
\* are the call's, the label after the coercion to DEFECT_LABELS.
CarriesCall(n, l) ==
    /\ n.defect_type = LabelOrDefault(l.arg.defect_type)
    /\ n.severity = l.arg.severity
    /\ n.location = l.arg.location
    /\ n.score = l.arg.score
    /\ n.detail = l.arg.detail
    /\ n.action = l.arg.action
    /\ n.ts = l.ts

\* C1: after any sequence of insert_result, upsert_result and delete_results
\* calls no two rows of the store have the same image_hash.
C1_UniqueDigest ==
    \A r1, r2 \in rows : r1.image_hash = r2.image_hash => r1 = r2

\* C1 witness: insert_result was refused for content stored under another
\* path, while the path it came from is free.
C1_Witness ==
    /\ last.op = "insert" /\ ~last.ret
    /\ \E r \in rows : r.image_hash = last.hash /\ r.image_path # last.path
    /\ \A r \in rows : r.image_path # last.path

\* C2: after any sequence of calls no two rows have the same image_path,
\* also when upsert_result rewrites a row's path or a file changed in place.
C2_UniquePath ==
    \A r1, r2 \in rows : r1.image_path = r2.image_path => r1 = r2

\* C2 witness: upsert_result found the digest in one row while another row
\* holds the path the call came from (the UPDATE would have duplicated it).
C2_Witness ==
    /\ last.op = "upsert"
    /\ \E r1, r2 \in rows :
          /\ r1.id # r2.id
          /\ r1.image_hash = last.hash
          /\ r2.image_path = last.path

\* C3: insert_result for a file whose path or digest is already stored
\* returns False, raises nothing and leaves every row as it was; otherwise
\* it adds exactly one row, with the call's values, and returns True.
C3_InsertContract ==
    [][ last'.op = "insert" =>
          LET present == \E r \in rows : \/ r.image_path = last'.path
                                         \/ r.image_hash = last'.hash
          IN  /\ last'.exc = "none"
              /\ present => (last'.ret = FALSE /\ rows' = rows)
              /\ ~present =>
                   /\ last'.ret = TRUE
                   /\ \E n \in rows' :
                        /\ n \notin rows
                        /\ rows' = rows \cup {n}
                        /\ n.image_path = last'.path
                        /\ n.image_hash = last'.hash
                        /\ \A r \in rows : r.id # n.id
                        /\ CarriesCall(n, last')
      ]_vars

\* C3 witness: insert_result returned False for different content at a path
\* that is already stored (the digest itself is new).
C3_Witness ==
    /\ last.op = "insert" /\ ~last.ret
    /\ \E r \in rows : r.image_path = last.path
    /\ \A r \in rows : r.image_hash # last.hash

\* C4: upsert_result on content whose digest is already stored returns the
\* id of that row, creates no row, and afterwards the row's label, severity,
\* location, score, detail, action and timestamp are the values of this call,
\* whichever path the content is submitted from.
C4_UpsertOverwrites ==
    [][ (last'.op = "upsert" /\ \E r \in rows : r.image_hash = last'.hash) =>
          \E r \in rows :
             /\ r.image_hash = last'.hash
             /\ last'.exc = "none"
             /\ last'.ret = r.id
             /\ Cardinality(rows') = Cardinality(rows)
             /\ \E n \in rows' : n.id = r.id /\ CarriesCall(n, last')
      ]_vars

\* C5: upsert_result on content whose digest is not stored inserts exactly
\* one new row and returns its id, also when another row already holds the
\* same image_path with a different digest.
C5_UpsertInsertsNew ==
    [][ (last'.op = "upsert" /\ \A r \in rows : r.image_hash # last'.hash) =>
          /\ last'.exc = "none"
          /\ \E n \in rows' :
               /\ n \notin rows
               /\ rows' \ rows = {n}
               /\ n.id = last'.ret
               /\ \A r \in rows : r.id # n.id
               /\ n.image_hash = last'.hash
      ]_vars

\* C6: when content first stored from path p1 is submitted again from
\* another path p2, by insert_result or by upsert_result, the store still
\* holds exactly one row for that digest and its image_path is still p1.
C6_OriginatingPathKept ==
    [][ (/\ last'.op \in {"insert", "upsert"}
         /\ \E r \in rows : r.image_hash = last'.hash /\ r.image_path # last'.path) =>
          \E r \in rows :
             /\ r.image_hash = last'.hash
             /\ \A n \in rows' :
                  n.image_hash = last'.hash => n.id = r.id /\ n.image_path = r.image_path
             /\ \E n \in rows' : n.image_hash = last'.hash
      ]_vars

\* C10: delete_results(ids) removes exactly the rows whose id is in ids,
\* returns how many rows it removed, and leaves every other row unchanged;
\* with empty ids it returns 0 and nothing is committed.
C10_DeleteContract ==
    [][ last'.op = "delete" =>
          /\ last'.exc = "none"
          /\ rows' \subseteq rows
          /\ \A r \in rows :
               r \in rows' <=> \A i \in 1..Len(last'.ids) : last'.ids[i] # r.id
          /\ last'.ret = Cardinality(rows \ rows')
          /\ last'.ids = << >> => (last'.ret = 0 /\ ~last'.commit /\ rows' = rows)
          /\ last'.ids # << >> => last'.commit
      ]_vars

\* C10 witness: a list of one stored and one never assigned id removed one
\* row, returned 1, and another row is still there.
C10_Witness ==
    /\ last.op = "delete" /\ Len(last.ids) = 2 /\ last.ret = 1
    /\ \E i \in 1..2 : last.ids[i] > seq
    /\ rows # {}

\* Columns of a returned row.
ColId(t) == t[1]
ColTs(t) == t[10]

\* t1 is a later 'YYYY-MM-DD HH:MM:SS' than t2.
Later(t1, t2) == t1[1] > t2[1] \/ (t1[1] = t2[1] /\ t1[2] > t2[2])

\* Returned row a comes before b in 'timestamp descending, id descending'.
Precedes(a, b) ==
    \/ Later(ColTs(a), ColTs(b))
    \/ ColTs(a) = ColTs(b) /\ ColId(a) > ColId(b)

\* C7: fetch_results(limit) returns the first min(limit, number of rows) rows
\* of the order 'timestamp descending, then id descending': a later
\* timestamp comes first, and of equal timestamps the larger id comes first.
C7_FetchOrder ==
    last.op = "fetch" =>
       LET ret == last.ret
           n   == Len(ret)
           all == { SelectCols(r) : r \in rows }
       IN  /\ n = Min(last.limit, Cardinality(rows))
           /\ \A i \in 1..n : ret[i] \in all
           /\ \A i, j \in 1..n : i < j => Precedes(ret[i], ret[j])
           /\ \A i \in 1..n :
                \A t \in all : (\A k \in 1..n : ret[k] # t) => Precedes(ret[i], t)

\* C7 witness: two rows with the same timestamp and a fetch of one row.
C7_Witness ==
    /\ last.op = "fetch" /\ last.limit = 1 /\ Len(last.ret) = 1
    /\ \E r1, r2 \in rows : r1.id # r2.id /\ r1.ts = r2.ts

\* x occurs in s as a substring (ASCII letters compared without case, as
\* LIKE compares them).
Contains(s, x) ==
    \E i \in 0..Len(s) - Len(x) :
       \A k \in 1..Len(x) : Lower(s[i + k]) = Lower(x[k])

\* Returned row t satisfies every supplied predicate of q.
Satisfies(t, q) ==
    /\ q.defect_type # "" => t[4] = q.defect_type
    /\ q.severity # "" => t[5] = q.severity
    /\ q.action # "" => t[9] = q.action
    /\ q.location # << >> => Contains(t[6], q.location)
    /\ q.keyword # << >> =>
          \/ Contains(t[3], q.keyword)
          \/ Contains(t[8], q.keyword)
          \/ Contains(t[6], q.keyword)
    /\ q.date_from # << >> => ColTs(t)[1] >= q.date_from[1]
    /\ q.date_to # << >> => ColTs(t)[1] <= q.date_to[1]

\* C8: search_results returns, in fetch order, exactly the rows that satisfy
\* every supplied predicate (label, severity, action by equality; location
\* by substring; keyword by substring in file name, detail or location;
\* date_from / date_to inclusive on the timestamp's date), truncated to limit.
C8_SearchExact ==
    last.op = "search" =>
       LET Test(t) == Satisfies(t, last.q)
       IN  last.ret = Limit(SelectSeq(FetchRows(rows, Cardinality(rows)), Test),
                            last.limit)

\* C9: search_results with no predicate supplied returns the same rows in
\* the same order as fetch_results with the same limit.
C9_SearchNoPredicateIsFetch ==
    (last.op = "search" /\ last.q = NoQuery) =>
        last.ret = FetchRows(rows, last.limit)

\* C9 witness: a search without predicates returned both rows of the store.
C9_Witness ==
    /\ last.op = "search" /\ last.q = NoQuery
    /\ Len(last.ret) = 2 /\ Cardinality(rows) = 2

\* C11: ids are stable and never reused: a newly created row gets an id
\* greater than every id assigned before (the ids of rows deleted since
\* included), and upsert_result on stored content keeps the row's id.
\* The largest id ever assigned is seq: no row is above it and it never
\* goes down, and every new row is above it.
C11_IdsNeverReused ==
    [][ /\ seq' >= seq
        /\ \A r \in rows : r.id <= seq
        /\ \A n \in rows' : n.id <= seq'
        /\ \A n \in rows' : (\A r \in rows : r.id # n.id) => n.id > seq
        /\ (/\ last'.op = "upsert" /\ last'.exc = "none"
            /\ \E r \in rows : r.image_hash = last'.hash) =>
              /\ { n.id : n \in rows' } = { r.id : r \in rows }
              /\ \E r \in rows : r.image_hash = last'.hash /\ r.id = last'.ret
              /\ \A r \in rows : \A n \in rows' :
                    r.image_hash = n.image_hash => r.id = n.id
      ]_vars

\* C11 witness: upsert_result created row 2 when no other row is stored:
\* id 1 was given out before and is not used again.
C11_Witness ==
    /\ last.op = "upsert" /\ last.exc = "none" /\ last.ret = 2
    /\ rows # {} /\ \A r \in rows : r.id = 2

\* C12: every row's defect_type is one of DEFECT_LABELS: insert_result and
\* upsert_result called with another label store DEFECT_LABELS[0] (no_defect)
\* and do not reject the call for it.
C12_LabelsConfigured ==
    /\ \A r \in rows : IsLabel(r.defect_type)
    /\ (/\ last.op \in {"insert", "upsert"}
        /\ ~IsLabel(last.arg.defect_type)) =>
          /\ last.exc = "none" =>
               \A r \in rows :
                  (r.image_hash = last.hash /\ (last.op = "upsert" \/ last.ret)) =>
                      r.defect_type = "no_defect"
          /\ last.op = "insert" =>
               (last.ret \/ \E r \in rows : \/ r.image_hash = last.hash
                                           \/ r.image_path = last.path)
          /\ last.op = "upsert" =>
               (last.exc = "none" \/ \E r \in rows : r.image_path = last.path)

\* C12 witness: both calls were made with the label "blob" and the store
\* holds no_defect for it.
C12_Witness ==
    /\ last.op = "upsert" /\ last.exc = "none"
    /\ last.arg.defect_type = "blob"
    /\ \E r \in rows : r.id = last.ret /\ r.defect_type = "no_defect"

\* C13: the fields of a stored row change only through upsert_result on the
\* row's digest: insert_result (successful or ignored), delete_results of
\* other ids, fetch_results, search_results and ensure_schema (run at the
\* head of every call) leave every field of every surviving row as it was.
C13_OnlyUpsertChangesRow ==
    [][ /\ \A r \in rows : \A n \in rows' :
              (n.id = r.id /\ n # r) =>
                  /\ last'.op = "upsert" /\ last'.exc = "none"
                  /\ last'.hash = r.image_hash
        /\ last'.op \in {"insert", "fetch", "search"} => rows \subseteq rows'
        /\ last'.op = "delete" =>
              \A r \in rows : r \in rows' \/ InList(r.id, last'.ids)
      ]_vars

\* C13 witness: an ignored insert_result on a stored digest, and the store
\* still has rows.
C13_Witness ==
    /\ last.op = "insert" /\ ~last.ret
    /\ \E r \in rows : r.image_hash = last.hash /\ r.image_path # last.path

\* ---------------------------------------------- claims on the decision engine
\* A verdict came back from classify_image.
Classified == last.op = "classify" /\ last.exc = "none"

C15_ActionTable ==
    Classified =>
        /\ last.ret.severity \in {"A", "B", "C"}
        /\ last.ret.label = "no_defect" => last.ret.action = "Pass"
        /\ last.ret.label # "no_defect" =>
              /\ last.ret.severity = "A" => last.ret.action = "Reject"
              /\ last.ret.severity = "B" => last.ret.action = "Rework"
              /\ last.ret.severity = "C" => last.ret.action = "Hold"
        /\ last.ret.action # "Scrap"

\* C15 witness: a defect of tier A, rejected.
C15_Witness ==
    /\ Classified
    /\ last.ret.label = "tire flat" /\ last.ret.severity = "A"
    /\ last.ret.action = "Reject"

\* C16 as stated: every verdict labelled no_defect has severity C, whatever
\* the severity head selected.
C16_NoFindingLowestTier ==
    (Classified /\ last.ret.label = "no_defect") => last.ret.severity = "C"

\* C16, amended: every verdict's severity is the tier of the level the
\* severity head selected (severe A, moderate B, minor C), also when the
\* label is no_defect.
C16_SeverityFromHead ==
    Classified =>
        /\ SEVERITY_LABELS[last.idx_sev] = "severe" => last.ret.severity = "A"
        /\ SEVERITY_LABELS[last.idx_sev] = "moderate" => last.ret.severity = "B"
        /\ SEVERITY_LABELS[last.idx_sev] = "minor" => last.ret.severity = "C"

\* C16 witness: a no_defect verdict of tier A.
C16_Witness ==
    /\ Classified
    /\ last.ret.label = "no_defect" /\ last.ret.severity = "A"
    /\ SEVERITY_LABELS[last.idx_sev] = "severe"

\* C17: the verdict's confidence is the winning class's probability in both
\* branches: with the label coerced to no_defect it is still that
\* probability, not 0, 1 or another value.
C17_ConfidenceIsWinningProbability ==
    Classified =>
        /\ last.ret.confidence = last.probs_def[last.idx]
        /\ last.ret.confidence # NaN =>
              \A i \in 1..Len(last.probs_def) :
                  last.probs_def[i] <= last.ret.confidence

\* C17 witness: an abstention whose confidence is the (positive) winning
\* probability.
C17_Witness ==
    /\ Classified /\ last.ret.label = "no_defect"
    /\ last.ret.confidence > 0 /\ last.ret.confidence < Scale
    /\ last.ret.confidence = last.probs_def[last.idx]

\* C18: a degenerate defect-class vector (all entries equal, or NaN in it)
\* makes classify_image fail; no verdict is returned for it.
Degenerate(v) ==
    \/ \E i \in 1..Len(v) : v[i] = NaN
    \/ \A i, j \in 1..Len(v) : v[i] = v[j]

C18_DegenerateRejected ==
    (/\ last.op = "classify" /\ last.exc # "UnidentifiedImageError"
     /\ Degenerate(last.probs_def)) => last.exc # "none"

\* ------------------------------------------------ claims on overlapping calls
\* Both callers have returned from a call of `op` on the same content.
BothDone(op) ==
    /\ \A t \in Callers : procs[t].pc = "done" /\ procs[t].op = op
    /\ \A t, u \in Callers : procs[t].hash = procs[u].hash

C20_UpsertAtomic ==
    /\ ~(\A t \in Callers : /\ procs[t].pc = "selected"
                            /\ procs[t].found = {}
                            /\ procs[t].hash = procs["t1"].hash)
    /\ BothDone("upsert") =>
          /\ \A t \in Callers : procs[t].exc = "none"
          /\ \A t \in Callers :
                \E r \in rows : r.image_hash = procs[t].hash /\ r.id = procs[t].ret

\* C28: an upsert_result call that ends in a uniqueness violation (its
\* UPDATE or INSERT would give a second row the call's image_path) leaves the
\* store as it was: no row is added and no field of any row changes.
C28_ViolationLeavesStore ==
    [][ (/\ last'.op = "upsert"
         /\ \E r \in rows : r.image_path = last'.path /\ r.image_hash # last'.hash)
        => /\ last'.exc = "IntegrityError"
           /\ rows' = rows
           /\ seq' = seq
      ]_vars

\* C28 witness: the call found its digest in one row and its path in
\* another, raised, and both rows are still there.
C28_Witness ==
    /\ last.op = "upsert" /\ last.exc = "IntegrityError"
    /\ \E r1, r2 \in rows : /\ r1.image_hash = last.hash
                            /\ r1.image_path # last.path
                            /\ r2.image_path = last.path

\* C29: the id an upsert_result call returns is, when the call returns, the
\* id of a stored row with the call's digest and field values, also when a
\* delete_results call for that row commits between the upsert's digest
\* lookup and its UPDATE.
C29_ReturnedIdIsStored ==
    [][ \A t \in Callers :
          (/\ procs[t].pc = "written" /\ procs[t].op = "upsert"
           /\ procs'[t].pc = "done")
          => \E r \in rows' : /\ r.id = procs'[t].ret
                              /\ r.image_hash = procs'[t].hash
                              /\ r.image_path = procs'[t].path
                              /\ CarriesCall(r, procs'[t])
      ]_vars

\* C21: every row written by on_save or by the folder loop whose label is
\* no_defect has action Pass, severity C and location none, whatever
\* severity and location the engine's verdict carried.
C21_NoDefectForced ==
    \A r \in rows :
        r.defect_type = "no_defect" =>
            r.action = "Pass" /\ r.severity = "C" /\ r.location = "none"

\* C21 witness: on_save stored the row of a no-finding verdict that came
\* with severity A and a location.
C21_Witness ==
    /\ last.op = "upsert" /\ last.exc = "none"
    /\ gui._last_classify # None
    /\ gui._last_classify.label = "no_defect"
    /\ gui._last_classify.severity = "A"
    /\ gui._last_classify.location = "front"
    /\ \E r \in rows : r.id = last.ret /\ r.defect_type = "no_defect"

\* C22: in the folder loop a failure while classifying or storing one file
\* is caught for that file only: the loop has tried each file before the
\* current one exactly once, failures included; it ends; and unless it was
\* cancelled it has then tried every file once.
C22_LoopTriesEveryFile ==
    /\ [](gui.pc = "batch" =>
            /\ gui.batch.i \in 1..Len(gui.batch.unique_paths) + 1
            /\ Len(gui.batch.log) = gui.batch.i - 1
            /\ gui.batch.saved + gui.batch.errors = gui.batch.i - 1)
    /\ []((last.op = "on_upload_folder" /\ last.outcome = "done") =>
            /\ Len(last.log) <= last.total
            /\ ~last.wasCanceled => Len(last.log) = last.total)
    /\ (gui.pc = "batch") ~> (gui.pc = "idle")

\* C22 witness: a loop over two files has ended; the first file failed,
\* the second was stored.
C22_Witness ==
    /\ last.op = "on_upload_folder" /\ last.outcome = "done"
    /\ last.total = 2 /\ Len(last.log) = 2
    /\ last.log[1] \in {"classify_error", "read_error"}
    /\ last.log[2] = "added"

\* C23: when the store cannot be opened (the query for the stored paths
\* failed at the start and the database is still unreachable), the folder
\* loop is given up: it does not go on to classify and try to store a file.
C23_UnavailableStoreAborts ==
    [][ (/\ gui.pc = "batch"
         /\ ~gui.batch.prefetched
         /\ ~db_up /\ ~db_up')
        => gui'.pc = "idle"
      ]_vars

\* C24: a file whose insert_result returned False (digest or path already
\* stored) is not counted as saved: the saved count of the loop, and of its
\* closing message, is the number of rows the loop added to the store.
C24_SavedCountsAddedRows ==
    /\ gui.pc = "batch" => gui.batch.saved = gui.batch.added
    /\ (last.op = "on_upload_folder" /\ last.outcome = "done") =>
          last.saved = last.added

\* C25: once the cancellation of a folder loop has been requested no
\* further file is classified or inserted (the flag is looked at before each
\* file, so the file during which it was requested is completed), and the
\* loop ends.
C25_CancelStopsBeforeNextFile ==
    /\ [][ (gui.pc = "batch" /\ gui.batch.wasCanceled)
           => /\ rows' = rows /\ seq' = seq
              /\ gui'.pc = "idle" \/ gui'.batch = gui.batch
         ]_vars
    /\ (gui.pc = "batch" /\ gui.batch.wasCanceled) ~> (gui.pc = "idle")

\* C25 witness: a loop over two files ended after its first file was
\* stored, on a cancellation.
C25_Witness ==
    /\ last.op = "on_upload_folder" /\ last.outcome = "done"
    /\ last.wasCanceled
    /\ last.total = 2 /\ last.log = << "added" >>
    /\ Cardinality(rows) = 1

\* C26: an item whose classification or file read fails (classify_image
\* raises, or _file_sha256 cannot read the file) leaves the store as it was,
\* in the folder loop and in on_save: no row is added, changed or removed
\* and no id is used up.
C26_FailedItemLeavesStore ==
    [][ (/\ last'.op \in {"classify", "insert", "upsert"}
         /\ last'.exc \in {"UnidentifiedImageError", "KeyError", "OSError"})
        => rows' = rows /\ seq' = seq
      ]_vars

\* C26 witness: on_save could not read the current image's file while the
\* store holds a row for that image; the row is still there.
C26_Witness ==
    /\ last.op = "upsert" /\ last.exc = "OSError"
    /\ gui.pc = "idle"
    /\ \E r \in rows : r.image_path = last.path

\* C27: whenever on_save writes a row, the verdict it stores was computed
\* by classify_image from the image that is current at the save, whatever
\* uploads, classifications, folder loops, row double-clicks and saves came
\* before.
C27_SavedVerdictIsOfCurrentImage ==
    [][ (/\ last'.op = "upsert" /\ last'.exc = "none"
         /\ last' # last \/ rows' # rows)
        => gui.classified_from = gui.current_image_path
      ]_vars

\* C30: on_save calls the store only with a current image and a verdict
\* obtained after the last image upload: between on_upload_image and the
\* next on_classify that returns a verdict, on_save writes nothing.
C30_NoSaveBeforeClassify ==
    [][ (/\ gui.pc = "idle"
         /\ \/ gui.fresh_upload
            \/ gui.current_image_path = None
            \/ gui._last_classify = None)
        => (last'.op = "upsert" => last' = last /\ rows' = rows /\ seq' = seq)
      ]_vars

\* C30 witness: with rows stored earlier, an image was uploaded and on_save
\* was asked for before any classification: it returned without a call.
C30_Witness ==
    /\ last.op = "on_save" /\ last.outcome = "no_result"
    /\ gui.fresh_upload
    /\ gui.current_image_path # None
    /\ rows # {}
====
